---------------------------- MODULE Spec2Model ----------------------------
(***************************************************************************)
(* Model of devops-tool-htmx (src/main.go): the State Projector            *)
(* (GetAppState), the create_canary handler and the set_canary handler,    *)
(* running against a Kubernetes object store (Deployments, Services,       *)
(* Endpoints of namespace "default").                                      *)
(*                                                                         *)
(* Strings that the program only compares are TLA+ strings.  Image         *)
(* references and tags, which the program splits and formats, are          *)
(* sequences of one-character strings.  A Go map is a function whose       *)
(* domain is the set of its keys; a Go pointer that may be nil is a        *)
(* sequence of length 0 or 1.                                              *)
(***************************************************************************)
EXTENDS Integers, Sequences, FiniteSets, TLC

VARIABLES
    deployments,   \* the Deployment objects of the store, in the gateway's list order
    services,      \* Service objects by name
    endpointsets,  \* Endpoints objects by name
    pc,            \* per request: the gateway call the handler is about to make
    req,           \* per request: the decoded inputs of the request
    loc,           \* per request: the handler's local variables
    resp,          \* per request: what the handler returned to the HTTP layer
    served,        \* number of requests that have arrived
    patchLog,      \* ghost: the Service patches the gateway has applied or refused
    faults         \* number of gateway calls that failed for an outside reason

vars == <<deployments, services, endpointsets, pc, req, loc, resp, served, patchLog, faults>>

----------------------------------------------------------------------------
(* Bounds of the model *)

\* number of HTTP requests served in one behaviour
MaxRequests == 2

\* number of requests the server handles at the same time
MaxInFlight == 2

\* number of gateway calls that may fail for a transport/auth reason
MaxFaults == 1

\* the server's request slots: a slot is reused once its response is out
Reqs == 1..MaxInFlight

----------------------------------------------------------------------------
(* Go maps *)

EmptyMap == <<>>

\* m[k] of a Go map[string]string: the zero value "" when k is absent
MapGet(m, k) == IF k \in DOMAIN m THEN m[k] ELSE ""

\* _, ok := m[k]
MapHas(m, k) == k \in DOMAIN m

\* m[k] = v
MapSet(m, k, v) == [x \in (DOMAIN m) \cup {k} |-> IF x = k THEN v ELSE m[x]]

MapDel(m, k) == [x \in (DOMAIN m) \ {k} |-> m[x]]

----------------------------------------------------------------------------
(* strconv.ParseBool, as called at main.go:97 *)

ParseBool(s) ==
    IF s \in {"1", "t", "T", "TRUE", "true", "True"}
    THEN [val |-> TRUE, ok |-> TRUE]
    ELSE IF s \in {"0", "f", "F", "FALSE", "false", "False"}
    THEN [val |-> FALSE, ok |-> TRUE]
    ELSE [val |-> FALSE, ok |-> FALSE]

----------------------------------------------------------------------------
(* Character strings: image references and tags *)

Colon == ":"

\* index of the first separator in s, or 0 when there is none
RECURSIVE IndexFrom(_, _, _)
IndexFrom(s, sep, i) ==
    IF i > Len(s) THEN 0
    ELSE IF s[i] = sep THEN i
    ELSE IndexFrom(s, sep, i + 1)

\* strings.SplitN(s, sep, 2): at most two pieces, cut at the first separator
SplitN2(s, sep) ==
    LET i == IndexFrom(s, sep, 1)
    IN  IF i = 0 THEN <<s>>
        ELSE <<SubSeq(s, 1, i - 1), SubSeq(s, i + 1, Len(s))>>

\* an override that appends the tag to the whole image reference
CanaryImageAppended(image, tag) == image \o <<Colon>> \o tag

\* fmt.Sprintf("%s:%s", imageSplit[0], req.Tag) over the split image
CanaryImage(image, tag) == SplitN2(image, Colon)[1] \o <<Colon>> \o tag

----------------------------------------------------------------------------
(* Object names *)

\* namesgenerator.GetRandomName(0): "<adjective>_<surname>", as its pieces
RandomNames == { <<"bold", "_", "bohr">>, <<"epic", "_", "hopper">> }

\* strings.ReplaceAll over the pieces of a name
ReplaceAll(pieces, old, new) ==
    [i \in DOMAIN pieces |-> IF pieces[i] = old THEN new ELSE pieces[i]]

RECURSIVE Join(_)
Join(pieces) ==
    IF pieces = <<>> THEN "" ELSE Head(pieces) \o Join(Tail(pieces))

\* fmt.Sprintf("%s-canary-%s", name, strings.ReplaceAll(random, "_", "-"))
CanaryName(name, random) ==
    name \o "-canary-" \o Join(ReplaceAll(random, "_", "-"))

----------------------------------------------------------------------------
(* The objects of the store *)

Marker == "devops-tool-htmx"

NginxImage ==
    << "n", "g", "i", "n", "x", ":", "1", ".", "2", "5", ".", "0",
       "-", "a", "l", "p", "i", "n", "e" >>

MyImage == << "m", "y", "i", "m", "a", "g", "e" >>

\* a Deployment object: metadata, spec and status as far as the program reads them
Deployment(name, labels, annotations, replicas, matchLabels, tplLabels, containers, avail) ==
    [ name        |-> name,
      labels      |-> labels,
      annotations |-> annotations,
      spec        |-> [ replicas    |-> replicas,
                        matchLabels |-> matchLabels,
                        tplLabels   |-> tplLabels,
                        containers  |-> containers ],
      availableReplicas |-> avail ]

TrackLabels(app, track) == [k \in {"app", "track"} |-> IF k = "app" THEN app ELSE track]

\* the primary workload of the repository's manifest, for application `app`
PrimaryDeployment(app, image) ==
    Deployment(app, TrackLabels(app, "main"), (Marker :> "true"), 3,
               TrackLabels(app, "main"), TrackLabels(app, "main"),
               << [name |-> app, image |-> image] >>, 3)

\* the Service of the repository's manifest
ManifestSelector(app) == TrackLabels(app, "main")

Service(selector) == [selector |-> selector]

Address(pod, ip) == [targetRef |-> [name |-> pod], ip |-> ip]

EndpointsObject(subsets) == [subsets |-> subsets]

----------------------------------------------------------------------------
(* The State Projector's computations *)

\* Deployments("default").List with the label selector app=<name>
ListByApp(store, name) ==
    LET Match(v) == MapHas(v.labels, "app") /\ v.labels["app"] = name
    IN  SelectSeq(store, Match)

\* a filter that forgets the track label
ManagedWithoutTrackCheck(v) ==
    LET p == ParseBool(MapGet(v.annotations, Marker))
    IN  p.ok /\ p.val

\* the loop body of GetAppState: whether a listed object is kept
Managed(v) ==
    LET p == ParseBool(MapGet(v.annotations, Marker))
    IN  /\ p.ok
        /\ MapHas(v.labels, "track")
        /\ p.val

ManagedDeployments(items) == SelectSeq(items, Managed)

\* Containers[0] of a workload without containers: index out of range
Panics(workloads) ==
    \E i \in DOMAIN workloads : Len(workloads[i].spec.containers) = 0

asCustomDeployment(workloads) ==
    [ i \in DOMAIN workloads |->
        [ name     |-> workloads[i].name,
          image    |-> workloads[i].spec.containers[1].image,
          track    |-> MapGet(workloads[i].labels, "track"),
          replicas |-> workloads[i].spec.replicas,
          availableReplicas |-> workloads[i].availableReplicas ] ]

asCustomEndpoint(addresses) ==
    [ i \in DOMAIN addresses |->
        [ targetPod |-> addresses[i].targetRef.name, ip |-> addresses[i].ip ] ]

\* addresses of the first subset, or none
FirstAddresses(endpoint) ==
    IF Len(endpoint.subsets) > 0 THEN endpoint.subsets[1].addresses ELSE <<>>

\* a derivation that reports the canary only for track "canary"
CanaryEnabledWhenCanary(selector) == MapGet(selector, "track") = "canary"

CanaryEnabled(selector) == ~(MapGet(selector, "track") = "main")

\* the AppStateResponse built at the end of GetAppState
AppStateResponse(svc, managed, endpoint) ==
    [ canaryEnabled |-> CanaryEnabled(svc.selector),
      deployments   |-> asCustomDeployment(managed),
      endpoints     |-> asCustomEndpoint(FirstAddresses(endpoint)) ]

----------------------------------------------------------------------------
(* The Canary Spawner's computations *)

\* a canary whose pod template keeps the labels of the primary
CanaryDeploymentKeepingPodLabels(name, primary, tag, replicas, random) ==
    [ name        |-> CanaryName(name, random),
      labels      |-> MapSet(("app" :> "nginx"), "track", "canary"),
      annotations |-> (Marker :> "true"),
      spec        |-> [ replicas    |-> replicas,
                        matchLabels |-> MapSet(primary.spec.matchLabels, "track", "canary"),
                        tplLabels   |-> primary.spec.tplLabels,
                        containers  |->
                            [ primary.spec.containers EXCEPT
                                ![1].image = CanaryImage(@, tag) ] ],
      availableReplicas |-> 0 ]

\* a canary whose specification is built anew from the fields the handler sets
CanaryDeploymentFreshSpec(name, primary, tag, replicas, random) ==
    [ name        |-> CanaryName(name, random),
      labels      |-> MapSet(("app" :> "nginx"), "track", "canary"),
      annotations |-> (Marker :> "true"),
      spec        |-> [ replicas    |-> replicas,
                        matchLabels |-> MapSet(primary.spec.matchLabels, "track", "canary"),
                        tplLabels   |-> MapSet(primary.spec.tplLabels, "track", "canary"),
                        containers  |->
                            << [ name  |-> primary.spec.containers[1].name,
                                 image |-> CanaryImage(primary.spec.containers[1].image,
                                                       tag) ] >> ],
      availableReplicas |-> 0 ]

\* the object the create_canary handler submits
CanaryDeployment(name, primary, tag, replicas, random) ==
    [ name        |-> CanaryName(name, random),
      labels      |-> MapSet(("app" :> "nginx"), "track", "canary"),
      annotations |-> (Marker :> "true"),
      spec        |-> [ primary.spec EXCEPT
                          !.matchLabels = MapSet(@, "track", "canary"),
                          !.tplLabels   = MapSet(@, "track", "canary"),
                          !.replicas    = replicas,
                          !.containers[1].image = CanaryImage(@, tag) ],
      availableReplicas |-> 0 ]

----------------------------------------------------------------------------
(* The Traffic Switch's computations *)

\* a patch that pins the selector to the canary track to disable
SelectorPatchPinningCanary(enabled) ==
    [ op    |-> IF enabled THEN "remove" ELSE "add",
      path  |-> <<"spec", "selector", "track">>,
      value |-> "canary" ]

\* a patch that removes the key to disable and adds it to enable
SelectorPatchSwapped(enabled) ==
    [ op    |-> IF enabled THEN "add" ELSE "remove",
      path  |-> <<"spec", "selector", "track">>,
      value |-> "main" ]

\* the JSON patch the set_canary handler marshals
SelectorPatch(enabled) ==
    [ op    |-> IF enabled THEN "remove" ELSE "add",
      path  |-> <<"spec", "selector", "track">>,
      value |-> "main" ]

\* a patch whose "add" replaces the whole selector by the member it adds
ApplyPatchReplacingSelector(selector, patch) ==
    LET key == patch.path[3]
    IN  IF patch.op = "remove"
        THEN IF MapHas(selector, key)
             THEN [ok |-> TRUE, selector |-> MapDel(selector, key)]
             ELSE [ok |-> FALSE, selector |-> selector]
        ELSE IF selector # EmptyMap
             THEN [ok |-> TRUE, selector |-> (key :> patch.value)]
             ELSE [ok |-> FALSE, selector |-> selector]

\* a patch whose "add" refuses a member that is already there
ApplyPatchStrictAdd(selector, patch) ==
    LET key == patch.path[3]
    IN  IF patch.op = "remove"
        THEN IF MapHas(selector, key)
             THEN [ok |-> TRUE, selector |-> MapDel(selector, key)]
             ELSE [ok |-> FALSE, selector |-> selector]
        ELSE IF selector # EmptyMap /\ ~MapHas(selector, key)
             THEN [ok |-> TRUE, selector |-> MapSet(selector, key, patch.value)]
             ELSE [ok |-> FALSE, selector |-> selector]

\* A JSON patch (RFC 6902) applied to a Service whose selector is `selector`.
\* "remove" needs the member to exist; "add" needs the parent object
\* /spec/selector to exist, and an empty selector is omitted from the
\* object's JSON; "add" of an existing member replaces its value.
ApplyPatch(selector, patch) ==
    LET key == patch.path[3]
    IN  IF patch.op = "remove"
        THEN IF MapHas(selector, key)
             THEN [ok |-> TRUE, selector |-> MapDel(selector, key)]
             ELSE [ok |-> FALSE, selector |-> selector]
        ELSE IF selector # EmptyMap
             THEN [ok |-> TRUE, selector |-> MapSet(selector, key, patch.value)]
             ELSE [ok |-> FALSE, selector |-> selector]

----------------------------------------------------------------------------
(* Requests, handler locals and responses *)

Names == {"nginx", "web"}

BetaTag == <<"b", "e", "t", "a">>

V2Tag == <<"v", "2">>

\* the tag of a create_canary body: a missing form field decodes to ""
Tags == {BetaTag, V2Tag, <<>>}

ReplicaChoices == {0, 1}

Request(op, name, tag, replicas, enabled, bodyOk) ==
    [ op |-> op, name |-> name, tag |-> tag, replicas |-> replicas,
      enabled |-> enabled, bodyOk |-> bodyOk ]

NoRequest == Request("none", "", <<>>, 0, FALSE, TRUE)

\* GET /app/:name
ReadRequests == { Request("read", n, <<>>, 0, FALSE, TRUE) : n \in Names }

\* POST /app/:name/create_canary, with a body that parses or does not
CreateRequests ==
    { Request("create", n, t, k, FALSE, TRUE) :
          n \in Names, t \in Tags, k \in ReplicaChoices }
    \cup { Request("create", n, <<>>, 0, FALSE, FALSE) : n \in Names }

\* GET /app/:name/set_canary?enabled=...
SetRequests == { Request("set", n, <<>>, 0, e, TRUE) : n \in Names, e \in BOOLEAN }

AllRequests == ReadRequests \cup CreateRequests \cup SetRequests

\* ghost fields: `failedAt` names the gateway call of GetAppState that failed,
\* `before` counts the managed workloads of the application when the canary
\* was created, `selBefore` is the selector the patch was applied to and
\* `patchedAt` the place of that patch in patchLog
NoLocals ==
    [ deployment |-> <<>>, canary |-> <<>>, managed |-> <<>>, endpoint |-> <<>>,
      ret |-> <<>>, failedAt |-> "", before |-> 0, selBefore |-> <<>>,
      patchedAt |-> 0 ]

\* a read that hands back a zero AppStateResponse beside its error
ReturnErrorWithState(err) ==
    [ state |-> << [canaryEnabled |-> FALSE, deployments |-> <<>>, endpoints |-> <<>>] >>,
      err   |-> err ]

\* return nil, err
ReturnError(err) == [state |-> <<>>, err |-> err]

\* return &AppStateResponse{...}, nil
ReturnState(state) == [state |-> <<state>>, err |-> ""]

NoResponse == [status |-> "none", err |-> "", body |-> <<>>]

\* a handler's `return err`
ErrorResponse(err) == [status |-> "error", err |-> err, body |-> <<>>]

\* a handler's `return c.JSON(appState)` or `return renderApp(c, name, *appState)`
OkResponse(state) == [status |-> "ok", err |-> "", body |-> <<state>>]

\* an unrecovered run-time panic in the handler: nothing is written back
PanicResponse == [status |-> "panic", err |-> "", body |-> <<>>]

\* No recover middleware is installed, so a handler's panic ends the process:
\* no request is accepted afterwards and the handlers in flight stop where
\* they are.
Crashed == \E q \in Reqs : resp[q] = PanicResponse

\* whether the next gateway call may fail for an outside reason
FaultChoices == IF faults < MaxFaults THEN {FALSE, TRUE} ELSE {FALSE}

Fault(fault) == faults' = faults + (IF fault THEN 1 ELSE 0)

InFlight == { q \in Reqs : pc[q] \notin {"idle", "done"} }

----------------------------------------------------------------------------
(* Initial states: the store the operator provisioned out of band *)

NginxPods == << Address("nginx-7d9c-1", "10.0.0.1") >>

\* selectors the Service of application nginx starts with: pinned to the
\* primary track as in the manifest, or matching every track
NginxSelectors == { ManifestSelector("nginx"), ("app" :> "nginx") }

InitDeployments ==
    << PrimaryDeployment("nginx", NginxImage), PrimaryDeployment("web", MyImage) >>

InitServices ==
    { ("nginx" :> Service(s)) @@ w :
          s \in NginxSelectors,
          w \in { EmptyMap, ("web" :> Service(ManifestSelector("web"))) } }

InitEndpoints ==
    { ("nginx" :> EndpointsObject(<< [addresses |-> NginxPods] >>)) @@ w :
          w \in { EmptyMap, ("web" :> EndpointsObject(<<>>)) } }

InitRequests ==
    /\ pc = [r \in Reqs |-> "idle"]
    /\ req = [r \in Reqs |-> NoRequest]
    /\ loc = [r \in Reqs |-> NoLocals]
    /\ resp = [r \in Reqs |-> NoResponse]
    /\ served = 0
    /\ patchLog = <<>>
    /\ faults = 0

Init ==
    /\ deployments = InitDeployments
    /\ services \in InitServices
    /\ endpointsets \in InitEndpoints
    /\ InitRequests

----------------------------------------------------------------------------
(* The endpoint-reconciliation controller of the orchestrator *)

Digits == << "1", "2", "3", "4", "5", "6", "7", "8", "9" >>

\* the pod of the i-th workload of the store
PodOf(store, i) == Address(store[i].name \o "-7d9c-1", "10.0.0." \o Digits[i])

\* a label selector matches a pod that carries each of its keys with its value
Matches(selector, labels) ==
    \A k \in DOMAIN selector : MapHas(labels, k) /\ labels[k] = selector[k]

RECURSIVE ReadyPods(_, _, _)
\* the pods of the running workloads from the i-th on that `selector` matches
ReadyPods(store, selector, i) ==
    IF i > Len(store) THEN <<>>
    ELSE (IF /\ store[i].availableReplicas > 0
             /\ Matches(selector, store[i].spec.tplLabels)
          THEN << PodOf(store, i) >>
          ELSE <<>>) \o ReadyPods(store, selector, i + 1)

\* the Endpoints object the controller computes for the Service `name`
Reconciled(name) ==
    LET pods == ReadyPods(deployments, services[name].selector, 1)
    IN  EndpointsObject(IF pods = <<>> THEN <<>> ELSE << [addresses |-> pods] >>)

----------------------------------------------------------------------------
(* The handlers, one action per gateway call *)

Store == <<deployments, services, endpointsets>>

Goto(r, label) == pc' = [pc EXCEPT ![r] = label]

Respond(r, response) ==
    /\ pc' = [pc EXCEPT ![r] = "done"]
    /\ resp' = [resp EXCEPT ![r] = response]

\* A request arrives in the lowest free slot and its handler runs up to its
\* first gateway call.  At most `limit` requests are in flight.
Start(r, requests, limit) ==
    /\ ~Crashed
    /\ pc[r] \in {"idle", "done"}
    /\ \A q \in Reqs : q < r => q \in InFlight
    /\ Cardinality(InFlight) < limit
    /\ served < MaxRequests
    /\ served' = served + 1
    /\ \E request \in requests :
        /\ req' = [req EXCEPT ![r] = request]
        /\ loc' = [loc EXCEPT ![r] = NoLocals]
        /\ IF ~request.bodyOk
           THEN Respond(r, ErrorResponse("BodyParser"))
           ELSE /\ Goto(r, CASE request.op = "read"   -> "list"
                             [] request.op = "create" -> "getPrimary"
                             [] request.op = "set"    -> "patch")
                /\ resp' = [resp EXCEPT ![r] = NoResponse]
    /\ UNCHANGED <<Store, patchLog, faults>>

\* create_canary: Deployments("default").Get(name)
GetPrimary(r) ==
    /\ ~Crashed
    /\ pc[r] = "getPrimary"
    /\ \E fault \in FaultChoices :
        LET found == { i \in DOMAIN deployments : deployments[i].name = req[r].name }
        IN  /\ Fault(fault)
            /\ IF fault
               THEN Respond(r, ErrorResponse("GatewayError")) /\ UNCHANGED loc
               ELSE IF found = {}
               THEN Respond(r, ErrorResponse("NotFound")) /\ UNCHANGED loc
               ELSE /\ loc' = [loc EXCEPT ![r].deployment =
                                  << deployments[CHOOSE i \in found : TRUE] >>]
                    /\ Goto(r, "create")
                    /\ UNCHANGED resp
    /\ UNCHANGED <<Store, req, served, patchLog>>

\* a Create that takes an object whatever names the store holds
CreateErrorIgnoringConflict(store, obj, fault) ==
    IF fault THEN "GatewayError" ELSE ""

\* why Deployments("default").Create rejects an object, or "" when it accepts it
CreateError(store, obj, fault) ==
    IF fault THEN "GatewayError"
    ELSE IF \E i \in DOMAIN store : store[i].name = obj.name THEN "AlreadyExists"
    ELSE ""

\* create_canary: build the canary from the fetched primary and create it
CreateCanary(r) ==
    /\ ~Crashed
    /\ pc[r] = "create"
    /\ \E random \in RandomNames, fault \in FaultChoices :
        LET primary == loc[r].deployment[1]
            canary  == CanaryDeployment(req[r].name, primary, req[r].tag,
                                        req[r].replicas, random)
            err     == CreateError(deployments, canary, fault)
        IN  IF Len(primary.spec.containers) = 0
            THEN /\ Respond(r, PanicResponse)
                 /\ UNCHANGED <<deployments, loc, faults>>
            ELSE /\ Fault(fault)
                 /\ loc' = [loc EXCEPT
                              ![r].canary = <<canary>>,
                              ![r].before =
                                  Len(ManagedDeployments(ListByApp(deployments, req[r].name)))]
                 /\ IF err # ""
                    THEN Respond(r, ErrorResponse(err)) /\ UNCHANGED deployments
                    ELSE /\ deployments' = Append(deployments, canary)
                         /\ Goto(r, "list")
                         /\ UNCHANGED resp
    /\ UNCHANGED <<services, endpointsets, req, served, patchLog>>

\* ghost: one entry of patchLog
PatchEntry(name, enabled, before, res) ==
    [ name |-> name, enabled |-> enabled, ok |-> res.ok,
      before |-> before, after |-> res.selector ]

\* a handler that drops the error of Patch and goes on to the re-read
PatchServiceIgnoringError(r) ==
    /\ ~Crashed
    /\ pc[r] = "patch"
    /\ \E fault \in FaultChoices :
        LET name  == req[r].name
            found == name \in DOMAIN services
            res   == ApplyPatch(services[name].selector, SelectorPatch(req[r].enabled))
        IN  /\ Fault(fault)
            /\ Goto(r, "sleep")
            /\ UNCHANGED resp
            /\ IF fault \/ ~found
               THEN UNCHANGED <<services, loc, patchLog>>
               ELSE /\ loc' = [loc EXCEPT ![r].selBefore = <<services[name].selector>>,
                                            ![r].patchedAt = Len(patchLog) + 1]
                    /\ patchLog' = Append(patchLog,
                                          PatchEntry(name, req[r].enabled,
                                                     services[name].selector, res))
                    /\ services' = [services EXCEPT ![name].selector = res.selector]
    /\ UNCHANGED <<deployments, endpointsets, req, served>>

\* set_canary: Services("default").Patch(name, JSONPatchType, payload)
PatchService(r) ==
    /\ ~Crashed
    /\ pc[r] = "patch"
    /\ \E fault \in FaultChoices :
        LET name  == req[r].name
            found == name \in DOMAIN services
            res   == ApplyPatch(services[name].selector, SelectorPatch(req[r].enabled))
        IN  /\ Fault(fault)
            /\ IF fault
               THEN /\ Respond(r, ErrorResponse("GatewayError"))
                    /\ UNCHANGED <<services, loc, patchLog>>
               ELSE IF ~found
               THEN /\ Respond(r, ErrorResponse("NotFound"))
                    /\ UNCHANGED <<services, loc, patchLog>>
               ELSE /\ loc' = [loc EXCEPT ![r].selBefore = <<services[name].selector>>,
                                            ![r].patchedAt = Len(patchLog) + 1]
                    /\ patchLog' = Append(patchLog,
                                          PatchEntry(name, req[r].enabled,
                                                     services[name].selector, res))
                    /\ services' = [services EXCEPT ![name].selector = res.selector]
                    /\ IF ~res.ok
                       THEN Respond(r, ErrorResponse("UnprocessableEntity"))
                       ELSE Goto(r, "sleep") /\ UNCHANGED resp
    /\ UNCHANGED <<deployments, endpointsets, req, served>>

\* a wait that lasts until the Endpoints object reflects the selector
SleepUntilReconciled(r) ==
    /\ ~Crashed
    /\ pc[r] = "sleep"
    /\ req[r].name \in DOMAIN endpointsets =>
           endpointsets[req[r].name] = Reconciled(req[r].name)
    /\ Goto(r, "list")
    /\ UNCHANGED <<Store, req, loc, resp, served, patchLog, faults>>

\* set_canary: time.Sleep(100 * time.Millisecond)
Sleep(r) ==
    /\ ~Crashed
    /\ pc[r] = "sleep"
    /\ Goto(r, "list")
    /\ UNCHANGED <<Store, req, loc, resp, served, patchLog, faults>>

\* GetAppState returns an error to the handler, which returns it
FailRead(r, call, err) ==
    /\ loc' = [loc EXCEPT ![r].ret = <<ReturnError(err)>>, ![r].failedAt = call]
    /\ Respond(r, ErrorResponse(loc'[r].ret[1].err))

\* GetAppState: Deployments("default").List and the filter loop
ListDeployments(r) ==
    /\ ~Crashed
    /\ pc[r] = "list"
    /\ \E fault \in FaultChoices :
        /\ Fault(fault)
        /\ IF fault
           THEN FailRead(r, "list", "GatewayError")
           ELSE /\ loc' = [loc EXCEPT ![r].managed =
                              ManagedDeployments(ListByApp(deployments, req[r].name))]
                /\ Goto(r, "getEndpoints")
                /\ UNCHANGED resp
    /\ UNCHANGED <<Store, req, served, patchLog>>

\* GetAppState: Endpoints("default").Get(name)
GetEndpoints(r) ==
    /\ ~Crashed
    /\ pc[r] = "getEndpoints"
    /\ \E fault \in FaultChoices :
        /\ Fault(fault)
        /\ IF fault
           THEN FailRead(r, "endpoints", "GatewayError")
           ELSE IF req[r].name \notin DOMAIN endpointsets
           THEN FailRead(r, "endpoints", "NotFound")
           ELSE /\ loc' = [loc EXCEPT ![r].endpoint = <<endpointsets[req[r].name]>>]
                /\ Goto(r, "getService")
                /\ UNCHANGED resp
    /\ UNCHANGED <<Store, req, served, patchLog>>

\* GetAppState: Services("default").Get(name), the result, and the handler's return
GetService(r) ==
    /\ ~Crashed
    /\ pc[r] = "getService"
    /\ \E fault \in FaultChoices :
        /\ Fault(fault)
        /\ IF fault
           THEN FailRead(r, "service", "GatewayError")
           ELSE IF req[r].name \notin DOMAIN services
           THEN FailRead(r, "service", "NotFound")
           ELSE IF Panics(loc[r].managed)
           THEN Respond(r, PanicResponse) /\ UNCHANGED loc
           ELSE /\ loc' = [loc EXCEPT ![r].ret =
                              << ReturnState(AppStateResponse(services[req[r].name],
                                                              loc[r].managed,
                                                              loc[r].endpoint[1])) >>]
                /\ Respond(r, OkResponse(loc'[r].ret[1].state[1]))
    /\ UNCHANGED <<Store, req, served, patchLog>>

----------------------------------------------------------------------------
(* All three request kinds, served one at a time *)

Next ==
    \E r \in Reqs :
        \/ Start(r, AllRequests, 1)
        \/ GetPrimary(r)
        \/ CreateCanary(r)
        \/ PatchService(r)
        \/ Sleep(r)
        \/ ListDeployments(r)
        \/ GetEndpoints(r)
        \/ GetService(r)

Spec == Init /\ [][Next]_vars

----------------------------------------------------------------------------
(* The State Projector alone: state reads over stores of every shape *)

\* values of the opt-in annotation; <<>> stands for an absent annotation
AnnotationPool ==
    { <<>>, <<"true">>, <<"false">>, <<"1">>, <<"TRUE">>, <<"yes">>, <<"">> }

\* values of the track label; <<>> stands for an absent label
TrackPool == { <<>>, <<"">>, <<"main">>, <<"canary">> }

OptionalEntry(key, value) == IF value = <<>> THEN EmptyMap ELSE (key :> value[1])

\* a second workload of application nginx, created out of band
ExtraWorkload(annotation, track) ==
    Deployment("nginx-extra",
               ("app" :> "nginx") @@ OptionalEntry("track", track),
               OptionalEntry(Marker, annotation), 1,
               ("app" :> "nginx") @@ OptionalEntry("track", track),
               ("app" :> "nginx") @@ OptionalEntry("track", track),
               << [name |-> "nginx", image |-> MyImage] >>, 0)

\* selectors of every shape: another track value, an empty one, no app key, no key
ProjectorSelectors ==
    NginxSelectors
    \cup { TrackLabels("nginx", "canary"), TrackLabels("nginx", ""),
           ("track" :> "main"), EmptyMap }

InitProjector ==
    /\ \E a \in AnnotationPool, t \in TrackPool :
          deployments = << ExtraWorkload(a, t),
                           PrimaryDeployment("nginx", NginxImage),
                           PrimaryDeployment("web", MyImage) >>
    /\ \E s \in ProjectorSelectors, w \in BOOLEAN :
          services = ("nginx" :> Service(s))
                     @@ (IF w THEN ("web" :> Service(ManifestSelector("web"))) ELSE EmptyMap)
    /\ \E subsets \in { <<>>, << [addresses |-> NginxPods] >> }, w \in BOOLEAN :
          endpointsets = ("nginx" :> EndpointsObject(subsets))
                         @@ (IF w THEN ("web" :> EndpointsObject(<<>>)) ELSE EmptyMap)
    /\ InitRequests

NextProjector ==
    \E r \in Reqs :
        \/ Start(r, ReadRequests, 1)
        \/ ListDeployments(r)
        \/ GetEndpoints(r)
        \/ GetService(r)

SpecProjector == InitProjector /\ [][NextProjector]_vars

----------------------------------------------------------------------------
(* The Canary Spawner alone: canaries cloned from primaries of every shape *)

RegistryImage == << "r", ":", "5", "/", "n", ":", "1" >>

ImagePool == { NginxImage, RegistryImage, MyImage }

\* label maps a primary may carry: the manifest's, one without track, another track
PrimaryLabelPool(app) ==
    { TrackLabels(app, "main"), ("app" :> app), TrackLabels(app, "stable") }

InitSpawner ==
    /\ \E image \in ImagePool, labels \in PrimaryLabelPool("nginx"),
          podLabels \in PrimaryLabelPool("nginx") :
          deployments =
              << Deployment("nginx", labels, (Marker :> "true"), 3, podLabels, podLabels,
                            << [name |-> "nginx", image |-> image] >>, 3) >>
    /\ services = ("nginx" :> Service(ManifestSelector("nginx")))
    /\ endpointsets = ("nginx" :> EndpointsObject(<< [addresses |-> NginxPods] >>))
    /\ InitRequests

NextSpawner ==
    \E r \in Reqs :
        \/ Start(r, CreateRequests, 1)
        \/ GetPrimary(r)
        \/ CreateCanary(r)
        \/ ListDeployments(r)
        \/ GetEndpoints(r)
        \/ GetService(r)

SpecSpawner == InitSpawner /\ [][NextSpawner]_vars

----------------------------------------------------------------------------
(* The Traffic Switch alone: toggles from selectors of every shape *)

InitSwitch ==
    /\ deployments = InitDeployments
    /\ \E s \in ProjectorSelectors, w \in BOOLEAN :
          services = ("nginx" :> Service(s))
                     @@ (IF w THEN ("web" :> Service(ManifestSelector("web"))) ELSE EmptyMap)
    /\ endpointsets \in InitEndpoints
    /\ InitRequests

NextSwitch ==
    \E r \in Reqs :
        \/ Start(r, SetRequests, 1)
        \/ PatchService(r)
        \/ Sleep(r)
        \/ ListDeployments(r)
        \/ GetEndpoints(r)
        \/ GetService(r)

SpecSwitch == InitSwitch /\ [][NextSwitch]_vars

----------------------------------------------------------------------------
(* The State Projector over a store that holds a workload without containers *)

\* the second workload of application nginx with an empty container list
ContainerlessWorkload(annotation, track) ==
    [ExtraWorkload(annotation, track) EXCEPT !.spec.containers = <<>>]

InitMalformed ==
    /\ \E a \in AnnotationPool, t \in TrackPool, full \in BOOLEAN :
          deployments = << IF full THEN ExtraWorkload(a, t)
                                   ELSE ContainerlessWorkload(a, t),
                           PrimaryDeployment("nginx", NginxImage),
                           PrimaryDeployment("web", MyImage) >>
    /\ services \in InitServices
    /\ endpointsets \in InitEndpoints
    /\ InitRequests

SpecMalformed == InitMalformed /\ [][NextProjector]_vars

----------------------------------------------------------------------------
(* Concurrent create_canary requests against one store *)

\* application nginx as the manifest provisions it, with the Endpoints object
\* of its Service or before the orchestrator has made one, and no other
\* application
InitRace ==
    /\ deployments = << PrimaryDeployment("nginx", NginxImage) >>
    /\ services = ("nginx" :> Service(ManifestSelector("nginx")))
    /\ endpointsets \in { ("nginx" :> EndpointsObject(<< [addresses |-> NginxPods] >>)),
                          EmptyMap }
    /\ InitRequests

\* create_canary for nginx, and for web, which has no primary
RaceCreateRequests == { Request("create", n, BetaTag, 1, FALSE, TRUE) : n \in Names }

NextCreateRace ==
    \E r \in Reqs :
        \/ Start(r, RaceCreateRequests, MaxInFlight)
        \/ GetPrimary(r)
        \/ CreateCanary(r)
        \/ ListDeployments(r)
        \/ GetEndpoints(r)
        \/ GetService(r)

SpecCreateRace == InitRace /\ [][NextCreateRace]_vars

----------------------------------------------------------------------------
(* Concurrent set_canary requests against one Service *)

InitSwitchRace ==
    /\ deployments = << PrimaryDeployment("nginx", NginxImage) >>
    /\ \E s \in NginxSelectors : services = ("nginx" :> Service(s))
    /\ endpointsets = ("nginx" :> EndpointsObject(<< [addresses |-> NginxPods] >>))
    /\ InitRequests

RaceSetRequests == { Request("set", "nginx", <<>>, 0, e, TRUE) : e \in BOOLEAN }

NextSwitchRace ==
    \E r \in Reqs :
        \/ Start(r, RaceSetRequests, MaxInFlight)
        \/ PatchService(r)
        \/ Sleep(r)
        \/ ListDeployments(r)
        \/ GetEndpoints(r)
        \/ GetService(r)

SpecSwitchRace == InitSwitchRace /\ [][NextSwitchRace]_vars

----------------------------------------------------------------------------
(* The Traffic Switch beside the endpoint-reconciliation controller *)

\* a canary of nginx created earlier, whose pod is running
RunningCanary ==
    [ CanaryDeployment("nginx", PrimaryDeployment("nginx", NginxImage), BetaTag, 1,
                       CHOOSE random \in RandomNames : TRUE)
      EXCEPT !.availableReplicas = 1 ]

\* the controller brings the Endpoints object of one Service up to date
Reconcile(name) ==
    /\ name \in DOMAIN services
    /\ name \in DOMAIN endpointsets
    /\ endpointsets[name] # Reconciled(name)
    /\ endpointsets' = [endpointsets EXCEPT ![name] = Reconciled(name)]
    /\ UNCHANGED <<deployments, services, pc, req, loc, resp, served, patchLog, faults>>

\* a store the controller has brought up to date
InitReconcile ==
    /\ deployments = << PrimaryDeployment("nginx", NginxImage), RunningCanary >>
    /\ \E s \in NginxSelectors : services = ("nginx" :> Service(s))
    /\ endpointsets = ("nginx" :> Reconciled("nginx"))
    /\ InitRequests

NextReconcile ==
    \/ \E r \in Reqs :
        \/ Start(r, RaceSetRequests, 1)
        \/ PatchService(r)
        \/ Sleep(r)
        \/ ListDeployments(r)
        \/ GetEndpoints(r)
        \/ GetService(r)
    \/ \E name \in Names : Reconcile(name)

SpecReconcile == InitReconcile /\ [][NextReconcile]_vars

----------------------------------------------------------------------------
(* Concurrent requests of all three kinds *)

RaceReadRequests == { Request("read", "nginx", <<>>, 0, FALSE, TRUE) }

RaceRequests == RaceReadRequests \cup RaceCreateRequests \cup RaceSetRequests

NextRace ==
    \E r \in Reqs :
        \/ Start(r, RaceRequests, MaxInFlight)
        \/ GetPrimary(r)
        \/ CreateCanary(r)
        \/ PatchService(r)
        \/ Sleep(r)
        \/ ListDeployments(r)
        \/ GetEndpoints(r)
        \/ GetService(r)

SpecRace == InitSwitchRace /\ [][NextRace]_vars

----------------------------------------------------------------------------
(* The three request kinds over two applications, one request at a time *)

FrameRequests ==
    ReadRequests
    \cup { Request("create", n, BetaTag, 1, FALSE, TRUE) : n \in Names }
    \cup SetRequests

NextFrame ==
    \E r \in Reqs :
        \/ Start(r, FrameRequests, 1)
        \/ GetPrimary(r)
        \/ CreateCanary(r)
        \/ PatchService(r)
        \/ Sleep(r)
        \/ ListDeployments(r)
        \/ GetEndpoints(r)
        \/ GetService(r)

SpecFrame == Init /\ [][NextFrame]_vars

----------------------------------------------------------------------------
(* The Canary Spawner over primaries whose specification carries more fields *)

\* a container with the ports and the environment it declares
Container(name, image, ports, env) ==
    [ name |-> name, image |-> image, ports |-> ports, env |-> env ]

\* the container of the manifest, and a second one beside it
ContainerPool(image) ==
    { << Container("nginx", image, <<"80">>, EmptyMap) >>,
      << Container("nginx", image, <<"80">>, ("MODE" :> "prod")),
         Container("agent", MyImage, <<>>, EmptyMap) >> }

StrategyPool == { "RollingUpdate", "Recreate" }

\* a primary whose specification also holds an update strategy
RichPrimary(podLabels, containers, strategy) ==
    [ Deployment("nginx", TrackLabels("nginx", "main"), (Marker :> "true"), 3,
                 podLabels, podLabels, containers, 3)
      EXCEPT !.spec = @ @@ [strategy |-> strategy] ]

InitClone ==
    /\ \E image \in ImagePool, podLabels \in PrimaryLabelPool("nginx"),
          strategy \in StrategyPool :
          \E containers \in ContainerPool(image) :
              deployments = << RichPrimary(podLabels, containers, strategy) >>
    /\ services = ("nginx" :> Service(ManifestSelector("nginx")))
    /\ endpointsets = ("nginx" :> EndpointsObject(<< [addresses |-> NginxPods] >>))
    /\ InitRequests

SpecClone == InitClone /\ [][NextSpawner]_vars

----------------------------------------------------------------------------
(* Properties of the State Projector *)

\* the requests whose GetAppState call has returned an AppStateResponse
Returned == { r \in Reqs : loc[r].ret # <<>> /\ loc[r].ret[1].state # <<>> }

StateOf(r) == loc[r].ret[1].state[1]

\* C1: the AppState returned by GetAppState has canaryEnabled = false if and
\* only if the Service's selector has the key track with the value "main";
\* it is true when the key is absent or has any other value.
C1_CanaryEnabledIffTrackNotMain ==
    \A r \in Returned :
        LET selector == services[req[r].name].selector
        IN  /\ (StateOf(r).canaryEnabled = FALSE)
                   <=> ("track" \in DOMAIN selector /\ selector["track"] = "main")
            /\ "track" \notin DOMAIN selector => StateOf(r).canaryEnabled = TRUE

\* a read returned canaryEnabled = true for a selector without track, and one
\* for a selector whose track is "canary"
C1_Witness ==
    \E r \in Returned :
        /\ StateOf(r).canaryEnabled
        /\ "track" \notin DOMAIN services[req[r].name].selector
        /\ resp[r].status = "ok"

TrueLiterals == {"1", "t", "T", "TRUE", "true", "True"}

\* the object does not opt in: annotation missing, malformed or false, or no track label
NotOptedIn(v) ==
    \/ Marker \notin DOMAIN v.annotations
    \/ v.annotations[Marker] \notin TrueLiterals
    \/ "track" \notin DOMAIN v.labels

Surfaced(r, v) ==
    \E j \in DOMAIN StateOf(r).deployments : StateOf(r).deployments[j].name = v.name

\* C2: the deployments of a returned AppState never include an object whose
\* opt-in annotation is missing, malformed or false, nor one without a track
\* label; such objects do not make the read fail (a read whose three gateway
\* calls succeed answers with an AppState).
C2_UnmanagedNeverSurfaced ==
    /\ \A r \in Returned :
           \A i \in DOMAIN deployments :
               NotOptedIn(deployments[i]) => ~Surfaced(r, deployments[i])
    /\ \A r \in Reqs :
           (req[r].op = "read" /\ pc[r] = "done" /\ loc[r].failedAt = "")
               => resp[r].status = "ok"

\* a read of nginx succeeded and left out a listed object with a malformed annotation
C2_Witness ==
    \E r \in Returned :
        /\ resp[r].status = "ok"
        /\ Len(StateOf(r).deployments) = 1
        /\ \E i \in DOMAIN deployments :
               /\ MapGet(deployments[i].labels, "app") = req[r].name
               /\ MapGet(deployments[i].annotations, Marker) = "yes"
               /\ MapHas(deployments[i].labels, "track")

\* C3: every workload surfaced in AppState.deployments carries a truthy marker
\* annotation and a non-empty track label; a workload whose track label is
\* present but empty is never surfaced.
C3_SurfacedTrackNonEmpty ==
    \A r \in Returned :
        /\ \A j \in DOMAIN StateOf(r).deployments : StateOf(r).deployments[j].track # ""
        /\ \A i \in DOMAIN deployments :
               MapGet(deployments[i].labels, "track") = "" => ~Surfaced(r, deployments[i])

\* C9: a state read is all-or-nothing: when the workload list, the Endpoints
\* fetch or the Service fetch fails (a gateway error, or the named object is
\* absent), GetAppState returns an error and no AppState, and the handler
\* answers with the error; an AppState is returned only when all three
\* succeeded, and then it is completely filled.
C9_ReadAllOrNothing ==
    \A r \in Reqs :
        /\ loc[r].failedAt # "" =>
               /\ loc[r].ret # <<>>
               /\ loc[r].ret[1].err # ""
               /\ loc[r].ret[1].state = <<>>
               /\ resp[r].status = "error" /\ resp[r].body = <<>>
        /\ (loc[r].ret # <<>> /\ loc[r].ret[1].err # "") => loc[r].ret[1].state = <<>>
        /\ r \in Returned =>
               /\ loc[r].failedAt = "" /\ loc[r].ret[1].err = ""
               /\ req[r].name \in DOMAIN services
               /\ req[r].name \in DOMAIN endpointsets
               /\ Len(StateOf(r).deployments) = Len(loc[r].managed)
        /\ (req[r].op = "read" /\ pc[r] = "done" /\ req[r].name \notin DOMAIN endpointsets)
               => loc[r].failedAt \in {"list", "endpoints"}
        /\ (req[r].op = "read" /\ pc[r] = "done" /\ req[r].name \notin DOMAIN services)
               => loc[r].failedAt # ""

\* the Endpoints fetch failed after the list had kept a workload
C9_Witness ==
    \E r \in Reqs :
        /\ loc[r].failedAt = "endpoints"
        /\ Len(loc[r].managed) > 0
        /\ loc[r].ret[1].state = <<>>
        /\ resp[r].status = "error"

----------------------------------------------------------------------------
(* Properties of the Canary Spawner *)

\* the requests that have submitted a canary to the gateway
Submitted == { r \in Reqs : loc[r].canary # <<>> }

CanaryOf(r) == loc[r].canary[1]

PrimaryOf(r) == loc[r].deployment[1]

HasTrackCanary(labels) == "track" \in DOMAIN labels /\ labels["track"] = "canary"

\* new is old with everything after its first ':' replaced by tag
TagReplaced(old, tag, new) ==
    \E k \in 0..Len(old) :
        /\ \A i \in 1..k : old[i] # ":"
        /\ k = Len(old) \/ old[k + 1] = ":"
        /\ new = SubSeq(old, 1, k) \o <<":">> \o tag

\* C4: after a successful create-canary request for an application with a
\* managed primary, a Service and an Endpoints object, the AppState returned
\* by the request has one more deployment entry than before, and that entry
\* has track "canary", the requested replicas and the primary's image with
\* its tag replaced.
C4_CanaryInReturnedState ==
    \A r \in Reqs :
        (req[r].op = "create" /\ req[r].tag # <<>> /\ resp[r].status = "ok") =>
            LET entries == resp[r].body[1].deployments
            IN  /\ Len(entries) = loc[r].before + 1
                /\ \E j \in DOMAIN entries :
                       /\ entries[j].name = CanaryOf(r).name
                       /\ entries[j].track = "canary"
                       /\ entries[j].replicas = req[r].replicas
                       /\ TagReplaced(PrimaryOf(r).spec.containers[1].image,
                                      req[r].tag, entries[j].image)

\* C7: every canary object submitted to the gateway, and every one stored,
\* has track = "canary" in its object label, its pod-selector match label and
\* its pod-template label, whatever the labels of the primary.
C7_CanaryTrackInThreePlaces ==
    /\ \A r \in Submitted :
           /\ HasTrackCanary(CanaryOf(r).labels)
           /\ HasTrackCanary(CanaryOf(r).spec.matchLabels)
           /\ HasTrackCanary(CanaryOf(r).spec.tplLabels)
    /\ \A i \in DOMAIN deployments :
           deployments[i].name \notin Names =>
               /\ HasTrackCanary(deployments[i].labels)
               /\ HasTrackCanary(deployments[i].spec.matchLabels)
               /\ HasTrackCanary(deployments[i].spec.tplLabels)

\* a canary was created from a primary labelled track=stable whose pods carry no track
C7_Witness ==
    \E r \in Submitted :
        /\ MapGet(PrimaryOf(r).labels, "track") = "stable"
        /\ ~MapHas(PrimaryOf(r).spec.tplLabels, "track")
        /\ \E i \in DOMAIN deployments : deployments[i] = CanaryOf(r)

\* C8: the canary's image is the primary's first-container image cut at its
\* first ':' with the supplied tag after it: nginx:1.25.0-alpine with tag
\* beta gives nginx:beta, and myimage with tag v2 gives myimage:v2.
C8_ImageTagReplaced ==
    \A r \in Submitted :
        LET old == PrimaryOf(r).spec.containers[1].image
            new == CanaryOf(r).spec.containers[1].image
        IN  /\ TagReplaced(old, req[r].tag, new)
            /\ (old = NginxImage /\ req[r].tag = BetaTag)
                   => new = <<"n", "g", "i", "n", "x", ":", "b", "e", "t", "a">>
            /\ (old = MyImage /\ req[r].tag = V2Tag)
                   => new = <<"m", "y", "i", "m", "a", "g", "e", ":", "v", "2">>

\* the canary nginx:beta was created from the primary nginx:1.25.0-alpine
C8_Witness ==
    \E r \in Submitted :
        /\ PrimaryOf(r).spec.containers[1].image = NginxImage
        /\ req[r].tag = BetaTag
        /\ CanaryOf(r).spec.containers[1].image
               = <<"n", "g", "i", "n", "x", ":", "b", "e", "t", "a">>
        /\ \E i \in DOMAIN deployments : deployments[i] = CanaryOf(r)

\* C10: a create-canary request with an empty image tag fails with an
\* InvalidTag error and creates no workload.
C10_EmptyTagRejected ==
    \A r \in Reqs :
        (req[r].op = "create" /\ req[r].bodyOk /\ req[r].tag = <<>>) =>
            /\ \A i \in DOMAIN deployments :
                   r \in Submitted => deployments[i] # CanaryOf(r)
            /\ resp[r].status # "ok"
            /\ (pc[r] = "done" /\ loc[r].deployment # <<>> /\ faults = 0)
                   => resp[r] = ErrorResponse("InvalidTag")

----------------------------------------------------------------------------
(* Properties of the Traffic Switch *)

\* the requests whose patch reached the Service
Patched == { r \in Reqs : req[r].op = "set" /\ loc[r].selBefore # <<>> }

\* C5: setCanaryTraffic(enabled = true) on a selector that has no track key
\* (only the application key) is a no-op that is not an error: the patch is
\* accepted, the selector is unchanged, and when the re-read succeeds an
\* AppState with canaryEnabled = true is returned.
C5_EnableWhenEnabledSucceeds ==
    \A r \in Patched :
        (req[r].enabled /\ DOMAIN loc[r].selBefore[1] = {"app"}) =>
            /\ resp[r].err # "UnprocessableEntity"
            /\ services[req[r].name].selector = loc[r].selBefore[1]
            /\ (pc[r] = "done" /\ loc[r].failedAt = "") =>
                   /\ resp[r].status = "ok"
                   /\ resp[r].body[1].canaryEnabled

\* after is before with track = "main" and every other key as it was
PinnedToMain(before, after) ==
    /\ DOMAIN after = DOMAIN before \cup {"track"}
    /\ after["track"] = "main"
    /\ \A k \in DOMAIN before \ {"track"} : after[k] = before[k]

\* two disable patches of the same Service, one right after the other
DisabledTwice(i) ==
    /\ i + 1 \in DOMAIN patchLog
    /\ ~patchLog[i].enabled /\ ~patchLog[i + 1].enabled
    /\ patchLog[i].name = patchLog[i + 1].name

\* C6 as claimed: from any starting selector, setCanaryTraffic(enabled = false)
\* succeeds, twice in sequence too, and leaves track = "main" with all other
\* keys unchanged.
C6_DisableTwiceFromAnySelector ==
    \A i \in DOMAIN patchLog :
        ~patchLog[i].enabled =>
            /\ patchLog[i].ok
            /\ PinnedToMain(patchLog[i].before, patchLog[i].after)
            /\ DisabledTwice(i) =>
                   /\ patchLog[i + 1].ok
                   /\ patchLog[i + 1].after = patchLog[i].after

\* C6 as amended: from any starting selector that has at least one key,
\* setCanaryTraffic(enabled = false) is accepted and leaves track = "main"
\* with all other keys unchanged; invoked twice in sequence it is accepted
\* both times and the second leaves the selector as the first left it.  From
\* a selector without keys the patch is refused and the selector stays empty.
C6_DisableTwiceFromNonEmptySelector ==
    /\ \A i \in DOMAIN patchLog :
           ~patchLog[i].enabled =>
               /\ patchLog[i].before # EmptyMap =>
                      /\ patchLog[i].ok
                      /\ PinnedToMain(patchLog[i].before, patchLog[i].after)
               /\ patchLog[i].before = EmptyMap =>
                      /\ ~patchLog[i].ok
                      /\ patchLog[i].after = EmptyMap
               /\ DisabledTwice(i) =>
                      /\ patchLog[i + 1].ok = patchLog[i].ok
                      /\ patchLog[i + 1].before = patchLog[i].after
                      /\ patchLog[i + 1].after = patchLog[i].after
    /\ \A r \in Patched :
           (~req[r].enabled /\ loc[r].selBefore[1] # EmptyMap) =>
               /\ resp[r].err # "UnprocessableEntity"
               /\ PinnedToMain(loc[r].selBefore[1], services[req[r].name].selector)
               /\ (pc[r] = "done" /\ loc[r].failedAt = "") =>
                      /\ resp[r].status = "ok"
                      /\ ~resp[r].body[1].canaryEnabled

\* disable was applied twice in sequence to a selector that had no track key
C6_Witness ==
    /\ Len(patchLog) = 2
    /\ DisabledTwice(1)
    /\ "track" \notin DOMAIN patchLog[1].before
    /\ patchLog[1].ok /\ patchLog[2].ok
    /\ patchLog[2].after = patchLog[1].after
    /\ \E r \in Patched : resp[r].status = "ok"

----------------------------------------------------------------------------
(* Properties of a read over a malformed workload *)

\* the reads that fetched everything and kept a workload without containers
KeptContainerless ==
    { r \in Reqs : /\ req[r].op = "read"
                   /\ pc[r] = "done"
                   /\ loc[r].failedAt = ""
                   /\ Panics(loc[r].managed) }

\* C11: when a kept (managed, track-labelled) workload declares no
\* containers, the read fails with a MalformedWorkload error value returned
\* to the caller, rather than crashing or returning an AppState.
C11_ContainerlessIsMalformedWorkload ==
    \A r \in KeptContainerless :
        /\ resp[r] = ErrorResponse("MalformedWorkload")
        /\ loc[r].ret = << ReturnError("MalformedWorkload") >>


\* the step of request r out of its Patch call, when the call fails: the
\* gateway is unreachable, the Service is missing, or the patch is refused
PatchFails(r) ==
    /\ pc[r] = "patch"
    /\ pc'[r] # "patch"
    /\ \/ faults' # faults
       \/ req[r].name \notin DOMAIN services
       \/ ~ApplyPatch(services[req[r].name].selector,
                      SelectorPatch(req[r].enabled)).ok

\* C12: a setCanaryTraffic request whose patch call fails leaves the selector
\* of the Service exactly as it was before the request, and returns the error
\* without re-reading state: the handler is done in that very step.
C12_FailedPatchLeavesSelector ==
    [][ \A r \in Reqs :
            PatchFails(r) =>
                /\ services' = services
                /\ pc'[r] = "done"
                /\ resp'[r].status = "error"
                /\ resp'[r].err \in {"GatewayError", "NotFound", "UnprocessableEntity"}
                /\ loc'[r].managed = <<>> /\ loc'[r].endpoint = <<>>
                /\ loc'[r].ret = <<>> ]_vars

\* an enable patch was refused: the request is over with the error, nothing
\* was re-read and the selector is the one the patch found
C12_Witness ==
    \E r \in Patched :
        /\ pc[r] = "done"
        /\ resp[r] = ErrorResponse("UnprocessableEntity")
        /\ ~patchLog[Len(patchLog)].ok
        /\ services[req[r].name].selector = loc[r].selBefore[1]
        /\ loc[r].ret = <<>> /\ loc[r].managed = <<>>

----------------------------------------------------------------------------
(* Properties of concurrent requests *)

NamesDistinct(store) ==
    \A i, j \in DOMAIN store : store[i].name = store[j].name => i = j

\* the requests whose Create call is accepted in this step
AcceptedNow == { r \in Reqs : pc[r] = "create" /\ pc'[r] = "list" }

\* the requests that fail in this step at Get (primary not found, gateway
\* failure) or at Create (name collision, gateway failure)
RejectedNow == { r \in Reqs : pc[r] \in {"getPrimary", "create"} /\ pc'[r] = "done" }

\* the requests that fail in this step in the re-read that follows Create
RereadFailedNow ==
    { r \in Reqs : /\ req[r].op = "create"
                   /\ pc[r] \in {"list", "getEndpoints", "getService"}
                   /\ pc'[r] = "done"
                   /\ resp'[r].status = "error" }

\* the create-canary requests that are over
CreateDone == { r \in Reqs : req[r].op = "create" /\ pc[r] = "done" }

\* the Create call of request r was accepted: r submitted a canary and did
\* not end with the error of Create
AddedWorkload(r) ==
    /\ r \in Submitted
    /\ ~(pc[r] = "done" /\ resp[r].status = "error" /\ loc[r].failedAt = "")

\* C13 as claimed: under any interleaving of concurrent create-canary
\* requests, each successful request adds exactly one new workload and each
\* failed request adds none, so that the number of workloads grows by exactly
\* the number of successful requests: a request that is over has added a
\* workload if and only if it was answered with an AppState.
C13_WorkloadsGrowBySuccessfulRequests ==
    \A r \in CreateDone :
        /\ resp[r].status = "ok" => AddedWorkload(r)
        /\ resp[r].status = "error" => ~AddedWorkload(r)

\* C13 as amended: under any interleaving of concurrent create-canary
\* requests, each request whose Create call is accepted adds exactly one new
\* workload, under a name no workload had, and each request that fails at the
\* fetch of the primary or at Create (primary not found, gateway failure,
\* name collision) adds none and overwrites none: every step makes the number
\* of workloads grow by the number of Create calls accepted in it and leaves
\* every workload that existed as it was.  A request whose Create call was
\* accepted and whose re-read of state then fails is answered with the error
\* while its workload stays in the store.
C13_WorkloadsGrowByAcceptedCreates ==
    [][ /\ Len(deployments') = Len(deployments) + Cardinality(AcceptedNow)
        /\ SubSeq(deployments', 1, Len(deployments)) = deployments
        /\ NamesDistinct(deployments) => NamesDistinct(deployments')
        /\ \A r \in AcceptedNow :
               /\ deployments' = Append(deployments, loc'[r].canary[1])
               /\ \A i \in DOMAIN deployments :
                      deployments[i].name # loc'[r].canary[1].name
        /\ \A r \in RejectedNow :
               /\ deployments' = deployments
               /\ resp'[r].status = "error"
        /\ \A r \in RereadFailedNow :
               /\ deployments' = deployments
               /\ \E i \in DOMAIN deployments : deployments[i] = CanaryOf(r) ]_vars

\* two requests in flight generated the same name: the first Create was
\* accepted and its request then failed in the re-read, the second Create
\* was rejected, and exactly one workload was added and is still there
C13_Witness ==
    \E r, q \in Submitted :
        /\ r # q
        /\ CanaryOf(r).name = CanaryOf(q).name
        /\ pc[r] = "done" /\ resp[r].status = "error" /\ loc[r].failedAt # ""
        /\ resp[q] = ErrorResponse("AlreadyExists")
        /\ Len(deployments) = 2
        /\ deployments[2] = CanaryOf(r)

\* the patches applied to the Service of request r after r's own patch
PatchedSince(r) ==
    { i \in DOMAIN patchLog : /\ i > loc[r].patchedAt
                              /\ patchLog[i].name = req[r].name
                              /\ patchLog[i].ok }

\* C14: a setCanaryTraffic(enabled) request applies its patch strictly before
\* its re-read of state: when its re-read returns an AppState, its patch has
\* been accepted, and if no other request patched the selector since, the
\* AppState has canaryEnabled = enabled.  With an opposite toggle in between
\* the returned canaryEnabled may differ from enabled (C14_Witness).
C14_PatchBeforeReread ==
    [][ \A r \in Reqs :
            (req[r].op = "set" /\ pc[r] = "getService" /\ resp'[r].status = "ok") =>
                /\ loc[r].patchedAt \in DOMAIN patchLog
                /\ patchLog[loc[r].patchedAt].ok
                /\ patchLog[loc[r].patchedAt].enabled = req[r].enabled
                /\ PatchedSince(r) = {} =>
                       resp'[r].body[1].canaryEnabled = req[r].enabled
                /\ resp'[r].body[1].canaryEnabled # req[r].enabled =>
                       \E i \in PatchedSince(r) :
                           patchLog[i].enabled # req[r].enabled ]_vars

\* two toggles in flight together: q patched first and r, the opposite toggle,
\* patched before q's re-read; r was answered with canaryEnabled as it asked
\* and q with the opposite of what it asked
C14_Witness ==
    \E r, q \in Patched :
        /\ req[r].name = req[q].name
        /\ req[r].enabled # req[q].enabled
        /\ loc[q].patchedAt < loc[r].patchedAt
        /\ resp[r].status = "ok" /\ resp[q].status = "ok"
        /\ resp[r].body[1].canaryEnabled = req[r].enabled
        /\ resp[q].body[1].canaryEnabled # req[q].enabled

----------------------------------------------------------------------------
(* Properties of the Traffic Switch beside the reconciliation controller *)

\* the returned endpoint is the pod of a workload of the canary track
CanaryInstance(endpoint) ==
    \E i \in DOMAIN deployments :
        /\ PodOf(deployments, i).targetRef.name = endpoint.targetPod
        /\ HasTrackCanary(deployments[i].spec.tplLabels)

\* the AppState of r pairs canaryEnabled = false with a canary-track endpoint
StaleEndpoints(r) ==
    /\ ~StateOf(r).canaryEnabled
    /\ \E k \in DOMAIN StateOf(r).endpoints : CanaryInstance(StateOf(r).endpoints[k])

\* C15: the fixed post-patch delay does not guarantee convergence.  The delay
\* ends whether or not the controller has updated the Endpoints object, and
\* the AppState returned afterwards lists the addresses of the Endpoints
\* object as fetched, whatever the selector says; so a successful
\* setCanaryTraffic(enabled = false) can return canaryEnabled = false with a
\* canary-track endpoint (C15_Witness).
C15_DelayDoesNotWaitForReconciliation ==
    \A r \in Reqs :
        /\ (pc[r] = "sleep" /\ ~Crashed) => ENABLED Sleep(r)
        /\ r \in Returned =>
               StateOf(r).endpoints = asCustomEndpoint(FirstAddresses(loc[r].endpoint[1]))

\* a disable request answered before the controller acted: canaryEnabled is
\* false and the endpoints still list the pod of the canary
C15_Witness ==
    \E r \in Returned :
        /\ req[r].op = "set" /\ ~req[r].enabled
        /\ resp[r].status = "ok"
        /\ MapGet(services[req[r].name].selector, "track") = "main"
        /\ StaleEndpoints(r)
        /\ endpointsets[req[r].name] # Reconciled(req[r].name)


\* the places in patchLog of the patches of Service `name` that were accepted
Applied(name) ==
    { i \in DOMAIN patchLog : patchLog[i].name = name /\ patchLog[i].ok }

LastApplied(name) ==
    patchLog[CHOOSE i \in Applied(name) : \A j \in Applied(name) : j <= i]

\* C16: starting from a selector whose track key is absent or equal to
\* "main", after any sequence and any interleaving of concurrent read,
\* create-canary and setCanaryTraffic requests the selector's track key is
\* still absent or equal to "main", and the selector equals the effect of
\* the last patch that was accepted: that patch applied to the selector it
\* found, with track absent after enable and "main" after disable.  While no
\* patch has been accepted the selector is the one the run started with.
C16_TrackAbsentOrMain ==
    \A name \in DOMAIN services :
        LET selector == services[name].selector
        IN  /\ ~MapHas(selector, "track") \/ selector["track"] = "main"
            /\ Applied(name) = {} => selector \in NginxSelectors
            /\ Applied(name) # {} =>
                   LET last == LastApplied(name)
                   IN  /\ selector = last.after
                       /\ selector = ApplyPatch(last.before,
                                                SelectorPatch(last.enabled)).selector
                       /\ last.enabled => ~MapHas(selector, "track")
                       /\ ~last.enabled => PinnedToMain(last.before, selector)

\* two opposite toggles in flight together were both accepted and the
\* selector is what the second of them left
C16_Witness ==
    /\ \E r, q \in Patched : r # q /\ req[r].enabled # req[q].enabled
    /\ Len(patchLog) = 2
    /\ patchLog[1].ok /\ patchLog[2].ok
    /\ patchLog[2].after # patchLog[1].after
    /\ services["nginx"].selector = patchLog[2].after

----------------------------------------------------------------------------
(* What each operation leaves alone *)

\* this step is a step of the handler of request r, past its entry
StepOf(r) == pc[r] \notin {"idle", "done"} /\ pc'[r] # pc[r]

\* new is old but for the key track
SameButTrack(old, new) ==
    /\ DOMAIN new \ {"track"} = DOMAIN old \ {"track"}
    /\ \A k \in DOMAIN old \ {"track"} : new[k] = old[k]

\* C17: each operation changes only what it is meant to change in the store.
\* A state read changes nothing; create-canary leaves the primary workload,
\* every other existing workload and every Service unchanged, adding at most
\* one workload; setCanaryTraffic changes only the track key of the selector
\* of the named Service, leaving its other selector keys, the other Services
\* and all workloads unchanged.  No operation changes an Endpoints object.
C17_OperationsChangeOnlyTheirTarget ==
    [][ \A r \in Reqs :
            StepOf(r) =>
                /\ endpointsets' = endpointsets
                /\ req[r].op = "read" =>
                       deployments' = deployments /\ services' = services
                /\ req[r].op = "create" =>
                       /\ services' = services
                       /\ SubSeq(deployments', 1, Len(deployments)) = deployments
                       /\ Len(deployments') <= Len(deployments) + 1
                       /\ pc[r] # "create" => deployments' = deployments
                /\ req[r].op = "set" =>
                       /\ deployments' = deployments
                       /\ DOMAIN services' = DOMAIN services
                       /\ \A n \in DOMAIN services :
                              IF n = req[r].name
                              THEN SameButTrack(services[n].selector,
                                                services'[n].selector)
                              ELSE services'[n] = services[n]
                       /\ pc[r] # "patch" => services' = services ]_vars

\* after a canary was created for nginx and its traffic was enabled, the two
\* primaries are as they were, the selector of nginx has lost its track key
\* and kept app, and the Service of web is as it was
C17_Witness ==
    /\ Len(deployments) = 3
    /\ SubSeq(deployments, 1, 2) = InitDeployments
    /\ HasTrackCanary(deployments[3].labels)
    /\ "web" \in DOMAIN services
    /\ services["web"] = Service(ManifestSelector("web"))
    /\ \E r \in Patched :
           /\ req[r].name = "nginx" /\ req[r].enabled
           /\ resp[r].status = "ok"
           /\ loc[r].selBefore[1] = ManifestSelector("nginx")
           /\ services["nginx"].selector = ("app" :> "nginx")

----------------------------------------------------------------------------
(* The specification of a canary against that of its primary *)

\* the fields of a workload specification the handler overrides
Overridden == {"matchLabels", "tplLabels", "replicas", "containers"}

\* new is old with track = "canary" and every other label as it was
TrackSetToCanary(old, new) == SameButTrack(old, new) /\ HasTrackCanary(new)

\* C18: the specification of a created canary workload equals the
\* specification of the primary workload fetched for it in every field
\* except the three overridden ones: the track value in the pod-selector and
\* pod-template labels, the replica count (the caller's value, 0 accepted),
\* and the image of the first container.
C18_CanarySpecIsPrimarySpecButThree ==
    \A r \in Submitted :
        LET primary == PrimaryOf(r).spec
            canary  == CanaryOf(r).spec
        IN  /\ DOMAIN canary = DOMAIN primary
            /\ \A f \in DOMAIN primary \ Overridden : canary[f] = primary[f]
            /\ TrackSetToCanary(primary.matchLabels, canary.matchLabels)
            /\ TrackSetToCanary(primary.tplLabels, canary.tplLabels)
            /\ canary.replicas = req[r].replicas
            /\ Len(canary.containers) = Len(primary.containers)
            /\ \A i \in DOMAIN primary.containers :
                   IF i = 1
                   THEN /\ DOMAIN canary.containers[i] = DOMAIN primary.containers[i]
                        /\ \A f \in DOMAIN primary.containers[i] \ {"image"} :
                               canary.containers[i][f] = primary.containers[i][f]
                        /\ TagReplaced(primary.containers[i].image, req[r].tag,
                                       canary.containers[i].image)
                   ELSE canary.containers[i] = primary.containers[i]

\* a canary with 0 replicas was created from a primary with two containers
\* and an update strategy, and the store holds it
C18_Witness ==
    \E r \in Submitted :
        /\ req[r].replicas = 0
        /\ Len(PrimaryOf(r).spec.containers) = 2
        /\ PrimaryOf(r).spec.strategy = "Recreate"
        /\ CanaryOf(r).spec.strategy = "Recreate"
        /\ CanaryOf(r).spec.replicas = 0
        /\ CanaryOf(r).spec.containers[2] = PrimaryOf(r).spec.containers[2]
        /\ CanaryOf(r).spec.containers[1].image # PrimaryOf(r).spec.containers[1].image
        /\ \E i \in DOMAIN deployments : deployments[i] = CanaryOf(r)

==========================================================================
